---- MODULE Spec2Model ----
(***************************************************************************)
(* A model of pylaser2d: LaserScanner (laser_scanner.py) and               *)
(* LaserScanOutput (laser_output.py).                                      *)
(*                                                                         *)
(* Numbers.  Coordinates, ranges and timestamps are integers.  Angles and  *)
(* headings are integers counting quarter turns (1 = pi/2), so cos and sin *)
(* are exact and every beam is parallel to an axis.  Map polygons have     *)
(* integer vertices and axis-parallel edges, so a beam meets a geometry    *)
(* first at an integer distance: the distance shapely returns is the       *)
(* smallest k in 0..range_max whose beam point lies in the geometry.       *)
(* Floating-point rounding is outside the model.                           *)
(*                                                                         *)
(* Python values.  A pose component is a record [num, val]: a number, or a *)
(* value that is not a number (num = FALSE).  A pose is [islist, v]: a     *)
(* Python list (islist) or another sequence type, with components v.       *)
(***************************************************************************)
EXTENDS Integers, Sequences, FiniteSets, TLC

VARIABLES
    cfg,                \* LaserScanner._cfg
    map_prepared,       \* LaserScanner._map_prepared
    scanner_prepared,   \* LaserScanner._scanner_prepared
    map,                \* LaserScanner._map
    state,              \* LaserScanner._state
    laser_scan,         \* LaserScanner.laser_scan (a LaserScanOutput)
    last,               \* the last call: operation, outcome, advisory, tests made
    seen,               \* what a reader polling laser_scan during the last call saw
    held,               \* the result of an earlier scan call that its caller kept
    geometric_map       \* a GeometricMap (map_geometric.py)

vars ==
    <<cfg, map_prepared, scanner_prepared, map, state, laser_scan, last, seen,
      held, geometric_map>>

---------------------------------------------------------------------------
(* Bounds of the model *)

MaxCoord == 5       \* pose coordinates are drawn from 0..MaxCoord
MaxHeading == 1     \* headings are drawn from 0..MaxHeading (quarter turns)
MaxTime == 1        \* timestamps are drawn from 0..MaxTime
MaxAngle == 2       \* angle_max from -1..MaxAngle, angle_increment from 0..MaxAngle+1
MaxRange == 2       \* range_max of the configuration
MaxObstacles == 2   \* obstacle_list has at most MaxObstacles entries
MaxVertices == 2    \* vertex lists handed to a GeometricMap have at most MaxVertices entries
MaxLen == 3         \* update is called with buffers of length 0..MaxLen

---------------------------------------------------------------------------
(* Python values *)

Num(i) == [num |-> TRUE, val |-> i]
NonNum == [num |-> FALSE, val |-> 0]
List(v) == [islist |-> TRUE, v |-> v]
Tuple(v) == [islist |-> FALSE, v |-> v]
NoState == List(<<>>)      \* _state before load_scanner has set it

Min(S) == CHOOSE m \in S : \A n \in S : m <= n

\* math.cos / math.sin of a quarter-turn count
Cos(k) == CASE k % 4 = 0 -> 1 [] k % 4 = 2 -> -1 [] OTHER -> 0
Sin(k) == CASE k % 4 = 1 -> 1 [] k % 4 = 3 -> -1 [] OTHER -> 0

---------------------------------------------------------------------------
(* LaserScanOutput *)

\* np.arange(angle_min, angle_max, angle_increment): the stop has no half step
ArangeNoHalfStep(start, stop, step) ==
    LET d == 2 * (stop - start)
        n == IF d <= 0 THEN 0 ELSE (d + 2 * step - 1) \div (2 * step)
    IN  [i \in 1..n |-> start + (i - 1) * step]

\* np.arange(angle_min, angle_max + angle_increment/2, angle_increment):
\* ceil((stop - start) / step) elements start + i*step; the lengths are
\* doubled so that the half step stays an integer
Arange(start, stop, step) ==
    LET d == 2 * (stop - start) + step
        n == IF d <= 0 THEN 0 ELSE (d + 2 * step - 1) \div (2 * step)
    IN  [i \in 1..n |-> start + (i - 1) * step]

\* the second check with >= for >
ConfigInvalidStrict(c) ==
    \/ c.angle_min > c.angle_max
    \/ (c.angle_increment <= 0) \/ (c.angle_increment >= c.angle_max - c.angle_min)

\* __post_init__'s two fatal checks
ConfigInvalid(c) ==
    \/ c.angle_min > c.angle_max
    \/ (c.angle_increment <= 0) \/ (c.angle_increment > c.angle_max - c.angle_min)

\* __post_init__'s advisory (warnings.warn)
ConfigAdvisory(c) == (c.angle_min >= 0) \/ (c.angle_max <= 0)

\* the dataclass defaults: empty pose, ranges and end points
NoScan ==
    [timestamp |-> 0, state |-> <<>>, angles |-> <<>>, range_max |-> 0,
     ranges |-> <<>>, beam_end_points |-> <<>>]

\* from_config + __post_init__: raises, or the object with its angles
PostInit(c) ==
    IF ConfigInvalid(c)
    THEN [raised |-> TRUE, warned |-> FALSE, obj |-> NoScan]
    ELSE [raised |-> FALSE, warned |-> ConfigAdvisory(c),
          obj |-> [NoScan EXCEPT
                     !.angles = Arange(c.angle_min, c.angle_max, c.angle_increment),
                     !.range_max = c.range_max]]

\* one end point of init_beams; evaluating it raises TypeError unless x, y
\* and heading are numbers
EndPointRaises(pos, heading) == ~(pos[1].num /\ pos[2].num /\ heading.num)

EndPoint(x, y, d, angle) == <<x + d * Cos(angle), y + d * Sin(angle)>>

\* the loop of init_beams, as used by InitBeamsStepsKeep
RECURSIVE AppendEndPointsKeep(_, _, _, _)
AppendEndPointsKeep(steps, pos, heading, i) ==
    LET self == steps[Len(steps)]
    IN  IF i > Len(self.angles) THEN [steps |-> steps, raised |-> FALSE]
        ELSE IF EndPointRaises(pos, heading) THEN [steps |-> steps, raised |-> TRUE]
        ELSE AppendEndPointsKeep(
                 Append(steps,
                     [self EXCEPT !.beam_end_points =
                         Append(@, EndPoint(pos[1].val, pos[2].val, self.range_max,
                                            heading.val + self.angles[i]))]),
                 pos, heading, i + 1)

\* init_beams without the reset of _beam_end_points
InitBeamsStepsKeep(self, pos, heading) ==
    LET s1 == [self EXCEPT !.state = <<pos[1], pos[2], heading>>]
        s3 == [s1 EXCEPT !.ranges = [i \in 1..Len(self.angles) |-> self.range_max]]
    IN  AppendEndPointsKeep(<<s1, s3>>, pos, heading, 1)

\* the loop of init_beams, from angle i on: the object after each append
RECURSIVE AppendEndPoints(_, _, _, _)
AppendEndPoints(steps, pos, heading, i) ==
    LET self == steps[Len(steps)]
    IN  IF i > Len(self.angles) THEN [steps |-> steps, raised |-> FALSE]
        ELSE IF EndPointRaises(pos, heading) THEN [steps |-> steps, raised |-> TRUE]
        ELSE AppendEndPoints(
                 Append(steps,
                     [self EXCEPT !.beam_end_points =
                         Append(@, EndPoint(pos[1].val, pos[2].val, self.range_max,
                                            heading.val + self.angles[i]))]),
                 pos, heading, i + 1)

\* init_beams, statement by statement: the object after each assignment
InitBeamsSteps(self, pos, heading) ==
    LET s1 == [self EXCEPT !.state = <<pos[1], pos[2], heading>>]
        s2 == [s1 EXCEPT !.beam_end_points = <<>>]
        s3 == [s2 EXCEPT !.ranges = [i \in 1..Len(self.angles) |-> self.range_max]]
    IN  AppendEndPoints(<<s1, s2, s3>>, pos, heading, 1)

\* init_beams as a call: the object it leaves, and whether it raised
InitBeams(self, pos, heading) ==
    LET r == InitBeamsSteps(self, pos, heading)
    IN  [obj |-> r.steps[Len(r.steps)], raised |-> r.raised, steps |-> r.steps]

\* update_ranges_and_beams, statement by statement
UpdateSteps(self, t, new_ranges, new_beam_end_points) ==
    IF Len(new_ranges) # Len(self.ranges) THEN [steps |-> <<>>, raised |-> TRUE]
    ELSE IF Len(new_beam_end_points) # Len(self.beam_end_points)
    THEN [steps |-> <<>>, raised |-> TRUE]
    ELSE LET s1 == [self EXCEPT !.timestamp = t]
             s2 == [s1 EXCEPT !.ranges = new_ranges]
             s3 == [s2 EXCEPT !.beam_end_points = new_beam_end_points]
         IN  [steps |-> <<s1, s2, s3>>, raised |-> FALSE]

UpdateRangesAndBeams(self, t, new_ranges, new_beam_end_points) ==
    LET r == UpdateSteps(self, t, new_ranges, new_beam_end_points)
    IN  [obj |-> IF r.raised THEN self ELSE r.steps[Len(r.steps)],
         raised |-> r.raised, steps |-> r.steps]

---------------------------------------------------------------------------
(* shapely, on polygons with integer vertices *)

\* the i-th edge of the closed ring through coords
EdgeFrom(coords, i) == coords[i]
EdgeTo(coords, i) == coords[(i % Len(coords)) + 1]

OnSegment(p, a, b) ==
    /\ (b[1] - a[1]) * (p[2] - a[2]) = (b[2] - a[2]) * (p[1] - a[1])
    /\ (a[1] <= p[1] /\ p[1] <= b[1]) \/ (b[1] <= p[1] /\ p[1] <= a[1])
    /\ (a[2] <= p[2] /\ p[2] <= b[2]) \/ (b[2] <= p[2] /\ p[2] <= a[2])

\* p lies on LineString(coords + [coords[0]])
RingHas(coords, p) ==
    \E i \in 1..Len(coords) : OnSegment(p, EdgeFrom(coords, i), EdgeTo(coords, i))

\* the edge a-b crosses the half line from p towards +x
Crosses(p, a, b) ==
    /\ (a[2] > p[2]) # (b[2] > p[2])
    /\ IF b[2] > a[2]
       THEN (p[1] - a[1]) * (b[2] - a[2]) < (p[2] - a[2]) * (b[1] - a[1])
       ELSE (p[1] - a[1]) * (b[2] - a[2]) > (p[2] - a[2]) * (b[1] - a[1])

InteriorHas(coords, p) ==
    /\ ~RingHas(coords, p)
    /\ Cardinality({i \in 1..Len(coords) :
                      Crosses(p, EdgeFrom(coords, i), EdgeTo(coords, i))}) % 2 = 1

\* Polygon(coords).contains(Point(p)) with the ring counted as inside
ContainsOrTouches(coords, p) == RingHas(coords, p) \/ InteriorHas(coords, p)

\* Polygon(coords).contains(Point(p)): the interior only
Contains(coords, p) == InteriorHas(coords, p)

\* a geometry of scan's list: a filled Polygon or the boundary's LineString
Solid(coords) == [solid |-> TRUE, coords |-> coords]
Curve(coords) == [solid |-> FALSE, coords |-> coords]

\* p is a point of the geometry: of the closed region, or of the curve
GeoHas(geo, p) ==
    IF geo.solid THEN RingHas(geo.coords, p) \/ InteriorHas(geo.coords, p)
    ELSE RingHas(geo.coords, p)

\* beam = LineString([(x, y), (x, y) + range_max*(cos, sin)(angle)]).
\* beam.intersection(geo).distance(Point(x, y)), searched from distance k on:
\* the first distance at which the beam is in geo, or -1 when
\* beam.intersects(geo) is false
RECURSIVE Distance(_, _, _, _, _, _)
Distance(geo, x, y, angle, range_max, k) ==
    IF k > range_max THEN -1
    ELSE IF GeoHas(geo, EndPoint(x, y, k, angle)) THEN k
    ELSE Distance(geo, x, y, angle, range_max, k + 1)

---------------------------------------------------------------------------
(* LaserScanner *)

NoMap == [boundary_coords |-> <<>>, obstacle_list |-> <<>>]

\* scan's list: the obstacles in map order, then the closed boundary
Geometries(m) ==
    [j \in 1..Len(m.obstacle_list) + 1 |->
        IF j <= Len(m.obstacle_list) THEN Solid(m.obstacle_list[j])
        ELSE Curve(m.boundary_coords)]

\* the inner loop without its comparison: the last geometry met wins
RECURSIVE ClosestLastWins(_, _, _, _, _, _, _)
ClosestLastWins(geometries, j, x, y, angle, range_max, closest_distance) ==
    IF j > Len(geometries) THEN closest_distance
    ELSE LET distance == Distance(geometries[j], x, y, angle, range_max, 0)
         IN  ClosestLastWins(geometries, j + 1, x, y, angle, range_max,
                 IF distance >= 0 THEN distance ELSE closest_distance)

\* the inner loop of scan from geometry j on: closest_distance after it
RECURSIVE ClosestDistance(_, _, _, _, _, _, _)
ClosestDistance(geometries, j, x, y, angle, range_max, closest_distance) ==
    IF j > Len(geometries) THEN closest_distance
    ELSE LET distance == Distance(geometries[j], x, y, angle, range_max, 0)
         IN  ClosestDistance(geometries, j + 1, x, y, angle, range_max,
                 IF distance >= 0 /\ distance < closest_distance
                 THEN distance ELSE closest_distance)

\* new_ranges and new_beams after the outer loop of scan: copies of the
\* buffers init_beams left, with entry i overwritten for each angle i
NewRanges(self, m, x, y, heading) ==
    [i \in 1..Len(self.ranges) |->
        IF i <= Len(self.angles)
        THEN ClosestDistance(Geometries(m), 1, x, y, heading + self.angles[i],
                             self.range_max, self.range_max)
        ELSE self.ranges[i]]

NewBeams(self, new_ranges, x, y, heading) ==
    [i \in 1..Len(self.beam_end_points) |->
        IF i <= Len(self.angles)
        THEN EndPoint(x, y, new_ranges[i], heading + self.angles[i])
        ELSE self.beam_end_points[i]]

\* scan's first two checks, with the scanner's flag forgotten
NotPreparedMapOnly == ~map_prepared

\* scan's first two checks
NotPrepared == ~map_prepared \/ ~scanner_prepared

\* scan's third check
InvalidState(current_state) == ~current_state.islist \/ Len(current_state.v) # 3

\* scan(current_time, current_state), as a call on the present state: the
\* outcome, what it leaves in _state and laser_scan, the object after each
\* of its assignments (steps) and the number of beam.intersects calls
ScanCall(current_time, current_state) ==
    IF NotPrepared \/ InvalidState(current_state)
    THEN [outcome |-> "ValueError", warned |-> FALSE, state |-> state,
          obj |-> laser_scan, steps |-> <<>>, tests |-> 0]
    ELSE
    LET position == <<current_state.v[1], current_state.v[2]>>
        heading == current_state.v[3]
        s1 == [laser_scan EXCEPT !.timestamp = current_time]
        ib == InitBeams(s1, position, heading)
    IN  IF ib.raised
        THEN [outcome |-> "TypeError", warned |-> FALSE, state |-> current_state,
              obj |-> ib.obj, steps |-> <<s1>> \o ib.steps, tests |-> 0]
        ELSE
        LET x == position[1].val
            y == position[2].val
        IN  IF ~Contains(map.boundary_coords, <<x, y>>)
            THEN [outcome |-> "ok", warned |-> TRUE, state |-> current_state,
                  obj |-> ib.obj, steps |-> <<s1>> \o ib.steps, tests |-> 0]
            ELSE
            LET new_ranges == NewRanges(ib.obj, map, x, y, heading.val)
                new_beams == NewBeams(ib.obj, new_ranges, x, y, heading.val)
                up == UpdateRangesAndBeams(ib.obj, current_time, new_ranges, new_beams)
            IN  [outcome |-> IF up.raised THEN "ValueError" ELSE "ok",
                 warned |-> FALSE, state |-> current_state, obj |-> up.obj,
                 steps |-> <<s1>> \o ib.steps \o up.steps,
                 tests |-> Len(ib.obj.angles) * Len(Geometries(map))]

---------------------------------------------------------------------------
(* GeometricMap *)

\* A vertex is a tuple of numbers, its length its dimension.  A vertex list
\* is a Python list or another sequence, [islist, v].  An obstacle info is
\* [isdict, keys, id_, vertices]: a dict with the keys it has, or a value
\* that is not a dict.

\* no GeometricMap has been constructed
NoGeometricMap ==
    [exists |-> FALSE, boundary_coords |-> <<>>, obstacle_info_dict |-> <<>>]

\* register_boundary(vertices) on the map self: the exception it raises or
\* "ok", and the map it leaves
RegisterBoundary(self, vertices) ==
    IF ~vertices.islist THEN [outcome |-> "TypeError", obj |-> self]
    ELSE IF Len(vertices.v) = 0 THEN [outcome |-> "IndexError", obj |-> self]
    ELSE IF Len(vertices.v[1]) # 2 THEN [outcome |-> "TypeError", obj |-> self]
    ELSE [outcome |-> "ok", obj |-> [self EXCEPT !.boundary_coords = vertices.v]]

\* self._obstacle_info_dict[id_] = obstacle
Store(dict, id_, obstacle) ==
    [k \in (DOMAIN dict) \cup {id_} |-> IF k = id_ THEN obstacle ELSE dict[k]]

\* register_obstacle(obstacle) on the map self
RegisterObstacle(self, obstacle) ==
    IF ~obstacle.isdict THEN [outcome |-> "TypeError", obj |-> self]
    ELSE IF "vertices" \notin obstacle.keys
    THEN [outcome |-> "ValueError", obj |-> self]
    ELSE IF ~obstacle.vertices.islist THEN [outcome |-> "TypeError", obj |-> self]
    ELSE IF Len(obstacle.vertices.v) = 0
    THEN [outcome |-> "IndexError", obj |-> self]
    ELSE IF Len(obstacle.vertices.v[1]) # 2
    THEN [outcome |-> "TypeError", obj |-> self]
    ELSE IF "id_" \notin obstacle.keys THEN [outcome |-> "KeyError", obj |-> self]
    ELSE [outcome |-> "ok",
          obj |-> [self EXCEPT !.obstacle_info_dict =
                      Store(@, obstacle.id_,
                            [id_ |-> obstacle.id_,
                             vertices |-> obstacle.vertices.v])]]

\* __init__'s loop over obstacle_info_list, from its i-th entry
RECURSIVE RegisterEach(_, _, _)
RegisterEach(self, obstacle_info_list, i) ==
    IF i > Len(obstacle_info_list) THEN [outcome |-> "ok", obj |-> self]
    ELSE LET r == RegisterObstacle(self, obstacle_info_list[i])
         IN  IF r.outcome # "ok" THEN r
             ELSE RegisterEach(r.obj, obstacle_info_list, i + 1)

\* GeometricMap(boundary_coords, obstacle_info_list): the exception, or the
\* map constructed
NewGeometricMap(boundary_coords, obstacle_info_list) ==
    LET empty == [exists |-> TRUE, boundary_coords |-> <<>>,
                  obstacle_info_dict |-> <<>>]
        b == RegisterBoundary(empty, boundary_coords)
    IN  IF b.outcome # "ok" THEN [outcome |-> b.outcome, obj |-> NoGeometricMap]
        ELSE LET r == RegisterEach(b.obj, obstacle_info_list, 1)
             IN  IF r.outcome # "ok"
                 THEN [outcome |-> r.outcome, obj |-> NoGeometricMap]
                 ELSE r

---------------------------------------------------------------------------
(* Inputs *)

Times == 0..MaxTime
Coords == 0..MaxCoord
Rows == {1}            \* the sensor is moved along the line y = 1
Headings == 0..MaxHeading

\* sensor configurations, valid and invalid
Configs ==
    [angle_min : -1..0, angle_max : -2..MaxAngle,
     angle_increment : 0..(MaxAngle + 1), range_max : 1..MaxRange]

\* the configuration scans are made with: three beams, at -1, 0 and 1
ScanConfigs ==
    {c \in Configs : /\ c.angle_min = -1 /\ c.angle_max = 1
                     /\ c.angle_increment = 1 /\ c.range_max = MaxRange}

\* the boundary square and two obstacle rectangles: one inside the boundary,
\* one across its right edge and reaching outside
Boundary == <<<<0, 0>>, <<4, 0>>, <<4, 4>>, <<0, 4>>>>
ObstacleA == <<<<2, 1>>, <<3, 1>>, <<3, 2>>, <<2, 2>>>>
ObstacleB == <<<<4, 0>>, <<6, 0>>, <<6, 2>>, <<4, 2>>>>
ObstacleLists ==
    {o \in UNION {[1..n -> {ObstacleA, ObstacleB}] : n \in 0..MaxObstacles} :
        \A i, j \in DOMAIN o : i # j => o[i] # o[j]}

NumericPoses ==
    {List(<<Num(x), Num(y), Num(h)>>) : x \in Coords, y \in Rows, h \in Headings}

\* poses scan must reject: wrong length, not a list, a component not a number
OtherPoses ==
    {List(<<Num(1), Num(1)>>), Tuple(<<Num(1), Num(1), Num(0)>>),
     List(<<NonNum, Num(1), Num(0)>>), List(<<Num(1), Num(1), NonNum>>)}

Poses == NumericPoses \cup OtherPoses

\* buffers handed to update_ranges_and_beams
Buffer(n, v) == [i \in 1..n |-> v]

UpdateArgs ==
    {<<t, Buffer(n, 0), Buffer(m, <<0, 0>>)>> :
        t \in Times, n \in 0..MaxLen, m \in 0..MaxLen}

Buffers(self) == <<self.ranges, self.beam_end_points>>

\* a call as `last` records it: the operation, how it ended ("ok" or the
\* exception raised), whether it emitted an advisory, and for scan the pose
\* it was given, the number of intersection tests it made, and whether it
\* repeats the call before it (a scan that got past the checks, with the
\* same time and pose)
Call(op, outcome, warned) ==
    [op |-> op, outcome |-> outcome, warned |-> warned, tests |-> 0,
     rep |-> FALSE, pose |-> NoState]

\* the result of a scan call in the hands of its caller: scan returns
\* self.laser_scan, the object itself.  `returned` is what the caller read
\* from it when scan returned; the result is that object for as long as it
\* is the scanner's laser_scan (live), and after load_scanner has put a new
\* object in its place it is the object as it was left (obj)
NoResult == [has |-> FALSE, live |-> FALSE, returned |-> NoScan, obj |-> NoScan]

\* load_scanner assigns a new LaserScanOutput to self.laser_scan: a result
\* that was that object stays as it is from then on
Orphaned(h, self) == IF h.live THEN [h EXCEPT !.live = FALSE, !.obj = self] ELSE h

\* what the holder of a result reads from it now
Read(h) == IF h.live THEN laser_scan ELSE h.obj

---------------------------------------------------------------------------
(* The state machine *)

Start ==
    /\ map_prepared = FALSE
    /\ scanner_prepared = FALSE
    /\ map = NoMap
    /\ state = NoState
    /\ laser_scan = NoScan
    /\ last = Call("construct", "ok", FALSE)
    /\ seen = Buffers(NoScan)
    /\ held = NoResult
    /\ geometric_map = NoGeometricMap

Init == cfg \in ScanConfigs /\ Start

LoadMap(boundary_coords, obstacle_list) ==
    /\ map' = [boundary_coords |-> boundary_coords, obstacle_list |-> obstacle_list]
    /\ map_prepared' = TRUE
    /\ last' = Call("load_map", "ok", FALSE)
    /\ seen' = Buffers(laser_scan)
    /\ UNCHANGED <<cfg, scanner_prepared, state, laser_scan, held, geometric_map>>

LoadScanner(init_position, init_heading) ==
    LET r == PostInit(cfg)
    IN  /\ IF r.raised
           THEN UNCHANGED <<laser_scan, state, scanner_prepared, held>>
           ELSE /\ laser_scan' = r.obj
                /\ held' = Orphaned(held, laser_scan)
                /\ state' = List(<<Num(init_position[1]), Num(init_position[2]),
                                   Num(init_heading)>>)
                /\ scanner_prepared' = TRUE
        /\ last' = Call("load_scanner", IF r.raised THEN "ValueError" ELSE "ok",
                        r.warned)
        /\ seen' = Buffers(laser_scan')
        /\ UNCHANGED <<cfg, map_prepared, map, geometric_map>>

\* what scan leaves, but for what a reader saw
ScanEffect(current_time, current_state) ==
    LET r == ScanCall(current_time, current_state)
    IN  /\ state' = r.state
        /\ laser_scan' = r.obj
        /\ last' = [Call("scan", r.outcome, r.warned) EXCEPT
                       !.tests = r.tests,
                       !.pose = current_state,
                       !.rep = /\ last.op = "scan"
                               /\ last.outcome # "ValueError"
                               /\ current_time = laser_scan.timestamp
                               /\ current_state = last.pose]
        /\ UNCHANGED <<cfg, map_prepared, scanner_prepared, map, geometric_map>>

\* scan, read after it has returned
Scan(current_time, current_state) ==
    /\ ScanEffect(current_time, current_state)
    /\ seen' = Buffers(laser_scan')
    /\ UNCHANGED held

\* scan, with a reader polling laser_scan once while it runs: before its
\* first assignment (k = 0) or after its k-th
ScanPolled(current_time, current_state) ==
    /\ ScanEffect(current_time, current_state)
    /\ LET steps == ScanCall(current_time, current_state).steps
       IN  \E k \in 0..Len(steps) :
               seen' = Buffers(IF k = 0 THEN laser_scan ELSE steps[k])
    /\ UNCHANGED held

\* laser_scan.init_beams called by the holder of the object
DirectInitBeams(current_position, heading) ==
    /\ scanner_prepared
    /\ LET r == InitBeams(laser_scan, <<Num(current_position[1]),
                                        Num(current_position[2])>>, Num(heading))
       IN  /\ laser_scan' = r.obj
           /\ last' = Call("init_beams", IF r.raised THEN "TypeError" ELSE "ok",
                           FALSE)
    /\ seen' = Buffers(laser_scan')
    /\ UNCHANGED <<cfg, map_prepared, scanner_prepared, map, state, held,
                   geometric_map>>

\* laser_scan.update_ranges_and_beams called by the holder of the object
DirectUpdate(current_time, new_ranges, new_beam_end_points) ==
    /\ scanner_prepared
    /\ LET r == UpdateRangesAndBeams(laser_scan, current_time, new_ranges,
                                     new_beam_end_points)
       IN  /\ laser_scan' = r.obj
           /\ last' = Call("update", IF r.raised THEN "ValueError" ELSE "ok",
                           FALSE)
    /\ seen' = Buffers(laser_scan')
    /\ UNCHANGED <<cfg, map_prepared, scanner_prepared, map, state, held,
                   geometric_map>>

Next ==
    \/ \E o \in ObstacleLists : LoadMap(Boundary, o)
    \/ \E x \in {1, MaxCoord} : LoadScanner(<<x, 1>>, 0)
    \/ \E t \in Times, p \in Poses : Scan(t, p)
    \/ DirectInitBeams(<<1, 1>>, 0)
    \/ \E a \in UpdateArgs : DirectUpdate(a[1], a[2], a[3])

\* every call of the scanner and of the object it hands out, in any order
Spec == Init /\ [][Next]_vars

\* construction and load_scanner alone, over all configurations
InitConfig == cfg \in Configs /\ Start

NextConfig ==
    \/ \E x \in {1, MaxCoord}, h \in Headings : LoadScanner(<<x, 1>>, h)
    \/ \E h \in Headings : DirectInitBeams(<<1, 1>>, h)

SpecConfig == InitConfig /\ [][NextConfig]_vars

\* one map, and scans with a reader polling during them
NextPolled ==
    \/ LoadMap(Boundary, <<ObstacleA>>)
    \/ LoadScanner(<<1, 1>>, 0)
    \/ \E t \in Times, p \in NumericPoses : ScanPolled(t, p)

SpecPolled == Init /\ [][NextPolled]_vars

\* scan, with its caller either keeping the object scan returned, in the
\* place of any result it held, or letting it go
ScanHeld(current_time, current_state) ==
    /\ ScanEffect(current_time, current_state)
    /\ seen' = Buffers(laser_scan')
    /\ \/ UNCHANGED held
       \/ /\ last'.outcome = "ok"
          /\ held' = [has |-> TRUE, live |-> TRUE, returned |-> laser_scan',
                      obj |-> laser_scan']

\* poses inside the boundary and outside it
HeldPoses == {p \in NumericPoses : p.v[1].val \in {1, MaxCoord}}

NextHeld ==
    \/ LoadMap(Boundary, <<ObstacleA>>)
    \/ LoadScanner(<<1, 1>>, 0)
    \/ \E t \in Times, p \in HeldPoses : ScanHeld(t, p)

\* one map, and scans whose results the caller may keep
SpecHeld == Init /\ [][NextHeld]_vars

---------------------------------------------------------------------------
(* The GeometricMap state machine *)

\* vertices of dimension 2, 1 and 3
Vertices == {<<0, 0>>, <<0>>, <<0, 0, 0>>}

\* vertex lists: every list of at most MaxVertices vertices, and a tuple
VertexLists ==
    {List(v) : v \in UNION {[1..n -> Vertices] : n \in 0..MaxVertices}}
        \cup {Tuple(<<<<0, 0>>>>)}

ObstacleIds == 1..MaxObstacles

\* obstacle infos: complete ones, one without "vertices", one without
\* "id_", and a value that is not a dict
ObstacleInfos ==
    {[isdict |-> TRUE, keys |-> {"id_", "vertices"}, id_ |-> i, vertices |-> v] :
        i \in ObstacleIds, v \in VertexLists}
    \cup {[isdict |-> TRUE, keys |-> {"id_"}, id_ |-> 1, vertices |-> List(<<>>)],
          [isdict |-> TRUE, keys |-> {"vertices"}, id_ |-> 1,
           vertices |-> List(<<<<0, 0>>>>)],
          [isdict |-> FALSE, keys |-> {}, id_ |-> 1, vertices |-> List(<<>>)]}

\* GeometricMap(boundary_coords, obstacle_info_list)
Construct(boundary_coords, obstacle_info_list) ==
    /\ ~geometric_map.exists
    /\ LET r == NewGeometricMap(boundary_coords, obstacle_info_list)
       IN  /\ geometric_map' = r.obj
           /\ last' = Call("GeometricMap", r.outcome, FALSE)
    /\ UNCHANGED <<cfg, map_prepared, scanner_prepared, map, state, laser_scan,
                   seen, held>>

\* geometric_map.register_boundary(vertices)
CallRegisterBoundary(vertices) ==
    /\ geometric_map.exists
    /\ LET r == RegisterBoundary(geometric_map, vertices)
       IN  /\ geometric_map' = r.obj
           /\ last' = Call("register_boundary", r.outcome, FALSE)
    /\ UNCHANGED <<cfg, map_prepared, scanner_prepared, map, state, laser_scan,
                   seen, held>>

\* geometric_map.register_obstacle(obstacle)
CallRegisterObstacle(obstacle) ==
    /\ geometric_map.exists
    /\ LET r == RegisterObstacle(geometric_map, obstacle)
       IN  /\ geometric_map' = r.obj
           /\ last' = Call("register_obstacle", r.outcome, FALSE)
    /\ UNCHANGED <<cfg, map_prepared, scanner_prepared, map, state, laser_scan,
                   seen, held>>

NextGeometric ==
    \/ \E b \in VertexLists, o \in {<<>>} \cup {<<i>> : i \in ObstacleInfos} :
           Construct(b, o)
    \/ \E v \in VertexLists : CallRegisterBoundary(v)
    \/ \E o \in ObstacleInfos : CallRegisterObstacle(o)

\* a GeometricMap: its construction, then registrations in any order
SpecGeometric == Init /\ [][NextGeometric]_vars

---------------------------------------------------------------------------
(* Properties *)

\* a pose scan is documented to take: a list [x, y, heading] of numbers
NumericList(pose) ==
    pose.islist /\ Len(pose.v) = 3 /\ \A i \in 1..3 : pose.v[i].num

\* the last call was scan, with map and scanner loaded and a numeric pose
ScannedAt(inside) ==
    /\ last.op = "scan" /\ map_prepared /\ scanner_prepared
    /\ NumericList(last.pose)
    /\ inside = InteriorHas(map.boundary_coords,
                            <<last.pose.v[1].val, last.pose.v[2].val>>)

\* the distances in 0..range_max at which the beam from (x, y) along angle
\* meets the boundary curve or an obstacle of the map
BeamHits(x, y, angle, range_max) ==
    {k \in 0..range_max :
        LET p == EndPoint(x, y, k, angle)
        IN  \/ RingHas(map.boundary_coords, p)
            \/ \E j \in DOMAIN map.obstacle_list :
                   RingHas(map.obstacle_list[j], p) \/ InteriorHas(map.obstacle_list[j], p)}

\* C1: after a scan from a position strictly inside the boundary, every
\* beam's range is the least of range_max and the distances at which the beam
\* meets the boundary curve or an obstacle; so it lies in 0..range_max, it is
\* range_max when the beam meets nothing, and it does not depend on the
\* order of the obstacles in the map.
C1_RangeIsNearestHit ==
    ScannedAt(TRUE) =>
        /\ last.outcome = "ok"
        /\ Len(laser_scan.ranges) = Len(laser_scan.angles)
        /\ \A i \in 1..Len(laser_scan.angles) :
               LET hits == BeamHits(last.pose.v[1].val, last.pose.v[2].val,
                                    last.pose.v[3].val + laser_scan.angles[i],
                                    laser_scan.range_max)
                   r == laser_scan.ranges[i]
               IN  /\ r = Min(hits \cup {laser_scan.range_max})
                   /\ 0 <= r /\ r <= laser_scan.range_max
                   /\ hits = {} => r = laser_scan.range_max

\* a scan from (1, 1), heading 0, with both obstacles in the map: the beam
\* at -1 stops at the boundary, the beam at 0 at obstacle A, and the beam at
\* 1 meets nothing and keeps range_max
C1_Witness ==
    /\ ScannedAt(TRUE)
    /\ last.pose = List(<<Num(1), Num(1), Num(0)>>)
    /\ Len(map.obstacle_list) = 2
    /\ laser_scan.ranges = <<1, 1, laser_scan.range_max>>
    /\ BeamHits(1, 1, 1, laser_scan.range_max) = {}

\* C2: a scan with map and scanner loaded and a numeric pose whose position
\* is not strictly inside the boundary does not fail, makes no intersection
\* test, and leaves every range at range_max and every end point at the
\* max-range end point for that pose, whatever the obstacles.
C2_OutsideIsBaseline ==
    ScannedAt(FALSE) =>
        /\ last.outcome = "ok"
        /\ last.tests = 0
        /\ laser_scan.ranges =
               [i \in 1..Len(laser_scan.angles) |-> laser_scan.range_max]
        /\ laser_scan.beam_end_points =
               [i \in 1..Len(laser_scan.angles) |->
                   EndPoint(last.pose.v[1].val, last.pose.v[2].val,
                            laser_scan.range_max,
                            last.pose.v[3].val + laser_scan.angles[i])]

\* a scan from (4, 1): on the boundary, and on the edge of obstacle B
C2_Witness ==
    /\ ScannedAt(FALSE)
    /\ last.pose.v[1].val = 4
    /\ \E j \in DOMAIN map.obstacle_list : map.obstacle_list[j] = ObstacleB
    /\ last.warned

\* C3 (as claimed): once load_scanner has created the object, ranges,
\* beam_end_points and angles have the same length.
C3_SameLengths ==
    scanner_prepared =>
        /\ Len(laser_scan.ranges) = Len(laser_scan.angles)
        /\ Len(laser_scan.beam_end_points) = Len(laser_scan.angles)

\* C4 (as claimed): a reader polling during a scan that follows a completed
\* scan sees the buffers of the previous scan or those of the scan in
\* progress, and nothing else.
C4_AtomicReplace ==
    [][(last.op = "scan" /\ last.outcome = "ok" /\ last'.op = "scan")
          => seen' \in {Buffers(laser_scan), Buffers(laser_scan')}]_vars

\* C5: a scan made while the map or the scanner is not loaded raises and
\* leaves the pose, the flags and the scan object as they were; a scan that
\* returns was made with both loaded.
C5_NotPreparedRaises ==
    [][last'.op = "scan" =>
          /\ (~map_prepared \/ ~scanner_prepared) =>
                 /\ last'.outcome = "ValueError"
                 /\ UNCHANGED <<state, map_prepared, scanner_prepared, laser_scan>>
          /\ last'.outcome = "ok" => map_prepared /\ scanner_prepared]_vars

\* a scan with a numeric pose, raised because only the scanner was loaded
C5_Witness ==
    /\ last.op = "scan" /\ last.outcome = "ValueError"
    /\ NumericList(last.pose)
    /\ scanner_prepared /\ ~map_prepared

\* C6 (as claimed): with map and scanner loaded, a scan whose pose is not a
\* list of three numbers raises and leaves pose, timestamp, ranges and end
\* points as they were; a scan whose pose is one does not raise.
C6_InvalidPoseCommitsNothing ==
    [][(last'.op = "scan" /\ map_prepared /\ scanner_prepared) =>
          IF NumericList(last'.pose)
          THEN last'.outcome = "ok"
          ELSE /\ last'.outcome # "ok"
               /\ UNCHANGED <<state, laser_scan>>]_vars

\* C7 (as claimed): update succeeds exactly when both new buffers have the
\* length of the angle sequence, in any state of the object; a failed update
\* changes nothing, a successful one stores its three arguments.
C7_UpdateChecksBeamCount ==
    [][\A a \in UpdateArgs :
          DirectUpdate(a[1], a[2], a[3]) =>
              /\ last'.outcome = "ok" <=>
                     /\ Len(a[2]) = Len(laser_scan.angles)
                     /\ Len(a[3]) = Len(laser_scan.angles)
              /\ last'.outcome # "ok" => laser_scan' = laser_scan
              /\ last'.outcome = "ok" =>
                     /\ laser_scan'.timestamp = a[1]
                     /\ laser_scan'.ranges = a[2]
                     /\ laser_scan'.beam_end_points = a[3]]_vars

\* C8: a scan that repeats the scan before it (same time, same pose, the
\* map untouched in between) leaves the ranges and end points the first
\* one left.
C8_ScanIdempotent ==
    [][(last'.op = "scan" /\ last.op = "scan" /\ last'.pose = last.pose
            /\ (last'.rep \/ last.outcome = "ValueError"))
          => Buffers(laser_scan') = Buffers(laser_scan)]_vars

\* a repeated scan from inside the boundary, with a beam stopped short
C8_Witness ==
    /\ last.rep /\ last.outcome = "ok" /\ ~last.warned
    /\ \E i \in DOMAIN laser_scan.ranges : laser_scan.ranges[i] < laser_scan.range_max

\* floor((angle_max - angle_min)/angle_increment + 1/2), for a valid c
HalfStepFloor(c) ==
    (2 * (c.angle_max - c.angle_min) + c.angle_increment) \div (2 * c.angle_increment)

\* the last step lands exactly a half step short of angle_max
HalfStepShort(c) ==
    (2 * (c.angle_max - c.angle_min) + c.angle_increment) % (2 * c.angle_increment) = 0

AnglesAreSteps ==
    \A i \in 1..Len(laser_scan.angles) :
        laser_scan.angles[i] = cfg.angle_min + (i - 1) * cfg.angle_increment

\* C9 (as claimed): the angle sequence has floor((angle_max - angle_min) /
\* angle_increment + 1/2) + 1 elements, element i being angle_min +
\* i*angle_increment.
C9_CountIsFloorPlusOne ==
    scanner_prepared =>
        /\ Len(laser_scan.angles) = HalfStepFloor(cfg) + 1
        /\ AnglesAreSteps

\* C9 (amended): the angle sequence holds angle_min + i*angle_increment for
\* every i >= 0 for which that is below angle_max + angle_increment/2: it has
\* floor(...) + 1 elements, but floor(...) elements when the last step
\* lands exactly a half step short of angle_max.
C9_CountBelowHalfStep ==
    scanner_prepared =>
        LET n == Len(laser_scan.angles)
        IN  /\ n = IF HalfStepShort(cfg) THEN HalfStepFloor(cfg)
                   ELSE HalfStepFloor(cfg) + 1
            /\ AnglesAreSteps
            /\ 2 * (cfg.angle_min + (n - 1) * cfg.angle_increment)
                   < 2 * cfg.angle_max + cfg.angle_increment
            /\ 2 * (cfg.angle_min + n * cfg.angle_increment)
                   >= 2 * cfg.angle_max + cfg.angle_increment

\* a scanner built with a configuration whose last step is a half step short
C9_Witness ==
    /\ scanner_prepared /\ HalfStepShort(cfg)
    /\ Len(laser_scan.angles) = 2 /\ laser_scan.angles[2] = 1 /\ cfg.angle_max = 2

\* C10: construction (in load_scanner) raises exactly when angle_min >
\* angle_max, or angle_increment <= 0, or angle_increment > angle_max -
\* angle_min; the advisory never makes it raise.
C10_ConstructionFailsExactly ==
    last.op = "load_scanner" =>
        /\ last.outcome # "ok" <=>
               \/ cfg.angle_min > cfg.angle_max
               \/ cfg.angle_increment <= 0
               \/ cfg.angle_increment > cfg.angle_max - cfg.angle_min
        /\ cfg.angle_increment = 0 => last.outcome # "ok"
        /\ last.outcome = "ok" <=> scanner_prepared
        /\ last.warned => last.outcome = "ok"

\* a construction that drew the advisory and succeeded
C10_Witness ==
    /\ last.op = "load_scanner" /\ last.outcome = "ok" /\ last.warned
    /\ cfg.angle_min >= 0 /\ scanner_prepared


\* a vertex list with at least one vertex, every vertex 2-dimensional
WellFormedVertices(v) == Len(v) >= 1 /\ \A i \in 1..Len(v) : Len(v[i]) = 2

\* the stored boundary and every stored obstacle are well formed
MapWellFormed(m) ==
    m.exists =>
        /\ WellFormedVertices(m.boundary_coords)
        /\ \A k \in DOMAIN m.obstacle_info_dict :
               WellFormedVertices(m.obstacle_info_dict[k].vertices)

\* an obstacle info that lacks a vertex list, or whose list is malformed
MalformedObstacle(o) ==
    ~o.isdict \/ "vertices" \notin o.keys \/ ~WellFormedVertices(o.vertices.v)

\* C11: after construction and after every register_boundary and
\* register_obstacle call, the stored boundary and every stored obstacle
\* have at least one vertex and only 2-dimensional vertices; and a call
\* given a missing or empty vertex list, or a list with a vertex at any
\* index that is not 2-dimensional, fails and leaves the stored boundary and
\* obstacles as they were.
C11_MapWellFormed ==
    [][/\ MapWellFormed(geometric_map')
       /\ \A v \in VertexLists :
              CallRegisterBoundary(v) /\ ~WellFormedVertices(v.v)
                  => last'.outcome # "ok" /\ UNCHANGED geometric_map
       /\ \A o \in ObstacleInfos :
              CallRegisterObstacle(o) /\ MalformedObstacle(o)
                  => last'.outcome # "ok" /\ UNCHANGED geometric_map]_vars

\* what a caller reads from a scan result
Values(o) == <<o.timestamp, o.state, o.ranges, o.beam_end_points>>

\* C12: the result a scan call returned is a snapshot: after a later scan
\* call on the same scanner with a different timestamp or pose, the
\* timestamp, pose, ranges and end points read from the earlier result are
\* still the values the earlier scan produced.
C12_ResultIsSnapshot ==
    [][\A t \in Times, p \in HeldPoses :
           /\ held.has /\ ScanHeld(t, p) /\ UNCHANGED held
           /\ (t # held.returned.timestamp \/ p.v # held.returned.state)
           => Values(Read(held))' = Values(held.returned)]_vars


====
